---------------------------- MODULE Spec2Model ----------------------------
(***************************************************************************)
(* Model of src/src/transforms.rs (FusionMouse): the LowPassFilter, the     *)
(* OneEuroFilter, the AccumulatingRounder, the FixationFilter and the      *)
(* PolyMouseTransform throw/track machine.                                 *)
(*                                                                         *)
(* Numbers.  An f32 is modelled as a fixed-point number: the integer v     *)
(* stands for the real v / Scale.  A product or quotient of two            *)
(* fixed-point numbers is rounded toward zero to the grid (Mul, Div).      *)
(* Comparisons of distances and the `as i32` conversions of the throw      *)
(* branch are computed exactly on the real value (through squares), so     *)
(* no rounding of a square root enters them.  Pixel coordinates (i32) are  *)
(* plain integers.  The two smoothing filters round every product, sum of  *)
(* products and quotient to the nearest grid point, ties to even, as f32   *)
(* arithmetic rounds to the nearest f32 (MulN, DivN).                      *)
(***************************************************************************)
EXTENDS Integers, Sequences, FiniteSets, TLC

VARIABLES
    accum,      \* AccumulatingRounder.accum of a stand-alone rounder
    rlog,       \* what the caller of the stand-alone rounder has observed
    fparams,    \* FixationFilter.min_fixation_s and .max_velocity
    buffer,     \* FixationFilter.buffer, oldest point first
    cur,        \* FixationFilter.cur
    flog,       \* what the caller of the fixation filter has observed
    pparams,    \* PolyMouseTransform.params
    throwing,   \* PolyMouseTransform.throwing
    smoothed_head_speed,    \* PolyMouseTransform.smoothed_head_speed
    last_jump_destination,  \* PolyMouseTransform.last_jump_destination
    x_round,    \* PolyMouseTransform.x_round.accum
    y_round,    \* PolyMouseTransform.y_round.accum
    call,       \* the latest PolyMouseTransform::transform call: its
                \* arguments, the branch it took and the point it returned
    low,        \* a LowPassFilter: first_time and hat_x_prev
    llog,       \* what the caller of the low-pass filter has observed
    euro,       \* a OneEuroFilter: its constants, first_time, xfilt, dxfilt
    elog        \* what the caller of the one-euro filter has observed

rounderVars == <<accum, rlog>>

fixVars == <<fparams, buffer, cur, flog>>

polyVars == <<pparams, throwing, smoothed_head_speed, last_jump_destination,
              x_round, y_round, call>>

filterVars == <<low, llog, euro, elog>>

vars == <<accum, rlog, fparams, buffer, cur, flog, pparams, throwing,
          smoothed_head_speed, last_jump_destination, x_round, y_round, call,
          low, llog, euro, elog>>

---------------------------------------------------------------------------
(* Fixed-point arithmetic                                                  *)

\* one unit of the grid is 1/Scale
Scale == 10

Abs(a) == IF a < 0 THEN -a ELSE a

\* f32::signum on a value that is not NaN: 1.0 for +0.0 and above, else -1.0
Signum(a) == IF a >= 0 THEN 1 ELSE -1

\* integer quotient rounded toward zero
QuotTZ(a, b) == IF (a >= 0) = (b > 0) THEN Abs(a) \div Abs(b) ELSE -(Abs(a) \div Abs(b))

\* product of two fixed-point numbers, rounded toward zero to the grid
Mul(a, b) == QuotTZ(a * b, Scale)

\* quotient a / b of two fixed-point numbers (b # 0), rounded toward zero
Div(a, b) == QuotTZ(a * Scale, b)

\* the quotient q of n by d > 0 with remainder r, rounded to the nearest
\* integer, ties to even
NearestEven(q, r, d) ==
    IF 2 * r > d \/ (2 * r = d /\ q % 2 = 1) THEN q + 1 ELSE q

\* integer quotient a / b (b # 0) rounded to the nearest integer, ties to even
QuotNE(a, b) ==
    CHOOSE m \in {Signum(n) * Signum(d)
                    * NearestEven(Abs(n) \div Abs(d), Abs(n) % Abs(d), Abs(d)) :
                  n \in {a}, d \in {b}} : TRUE

\* product of two fixed-point numbers, rounded to the nearest grid point
MulN(a, b) == QuotNE(a * b, Scale)

\* quotient a / b of two fixed-point numbers (b # 0), rounded to the nearest
DivN(a, b) == QuotNE(a * Scale, b)

\* the largest r in lo..hi with r * r <= n, given lo * lo <= n (the midpoint
\* is bound as a value, so that it is computed once)
RECURSIVE SqrtBetween(_, _, _)
SqrtBetween(n, lo, hi) ==
    LET Narrow(mid) == IF mid * mid <= n THEN SqrtBetween(n, mid, hi)
                                         ELSE SqrtBetween(n, lo, mid - 1)
    IN  IF lo >= hi THEN lo
        ELSE CHOOSE s \in {Narrow(mid) : mid \in {(lo + hi + 1) \div 2}} : TRUE

\* floor of the square root of n, for 0 <= n < 2^31
ISqrt(n) ==
    CHOOSE r \in {SqrtBetween(m, 0, IF m < 46340 THEN m ELSE 46340) : m \in {n}} : TRUE

\* f32::trunc : the integer part (a whole number), toward zero
Trunc(x) == QuotTZ(x, Scale)

\* f32::fract : x - x.trunc(), a fixed-point number with the sign of x
Fract(x) == x - Trunc(x) * Scale

---------------------------------------------------------------------------
(* LowPassFilter                                                           *)

\* LowPassFilter::new
LowPassNew == [first_time |-> TRUE, hat_x_prev |-> 0]

\* a filter whose first call does not take x as the previous output
LowPassFilterCold(f, x, alpha) ==
    LET hatx == MulN(alpha, x) + MulN(Scale - alpha, f.hat_x_prev)
    IN  [first_time |-> FALSE, hat_x_prev |-> hatx, out |-> hatx]

\* LowPassFilter::filter on the filter f: the filter after the call and the
\* value returned
LowPassFilter(f, x, alpha) ==
    LET prev == IF f.first_time THEN x ELSE f.hat_x_prev
        hatx == MulN(alpha, x) + MulN(Scale - alpha, prev)
    IN  [first_time |-> FALSE, hat_x_prev |-> hatx, out |-> hatx]

\* calls of filter explored on one low-pass filter
MaxLowCalls == 3

\* inputs x: -0.7, 0, 0.5, 1.2 and 2
LowInputs == {-7, 0, 5, 12, 20}

\* smoothing factors alpha: 0, 0.3, 0.5 and 1
LowAlphas == {0, 3, 5, Scale}

\* a new low-pass filter and a caller that has seen nothing
LowStart ==
    /\ low = LowPassNew
    /\ llog = [calls |-> 0, x |-> 0, alpha |-> 0, out |-> 0]

\* no low-pass filter of its own is in use
LowIdle ==
    /\ low = LowPassNew
    /\ llog = [calls |-> 0, x |-> 0, alpha |-> 0, out |-> 0]

\* the fields of the filter in the result r of a call
LowFields(r) == [first_time |-> r.first_time, hat_x_prev |-> r.hat_x_prev]

\* one call low.filter(x, alpha)
LowFilter(x, alpha) ==
    \E r \in {LowPassFilter(low, x, alpha)} :
        /\ low' = LowFields(r)
        /\ llog' = [calls |-> llog.calls + 1, x |-> x, alpha |-> alpha, out |-> r.out]

\* a caller that makes up to MaxLowCalls calls of filter
LowCall ==
    /\ llog.calls < MaxLowCalls
    /\ \E x \in LowInputs, alpha \in LowAlphas : LowFilter(x, alpha)
    /\ UNCHANGED <<euro, elog>>
    /\ UNCHANGED <<rounderVars, fixVars, polyVars>>

---------------------------------------------------------------------------
(* OneEuroFilter                                                           *)

\* std::f32::consts::PI on the grid: 3.1
PI == 31

\* OneEuroFilter::new
OneEuroNew(mincutoff, beta, dcutoff) ==
    [first_time |-> TRUE, mincutoff |-> mincutoff, beta |-> beta,
     dcutoff |-> dcutoff, xfilt |-> LowPassNew, dxfilt |-> LowPassNew]

\* OneEuroFilter::alpha (rate # 0, cutoff # 0)
Alpha(rate, cutoff) ==
    LET tau == DivN(Scale, MulN(MulN(2 * Scale, PI), cutoff))
        te  == DivN(Scale, rate)
    IN  DivN(Scale, Scale + DivN(tau, te))

\* the derivative handed to dxfilt by a filter that differentiates on its
\* first call as on every other
DerivativeAlways(e, x, rate) == MulN(x - e.xfilt.hat_x_prev, rate)

\* the derivative dx handed to dxfilt: 0 on the first call, afterwards the
\* change from the previous filtered output times the rate
Derivative(e, x, rate) ==
    IF e.first_time THEN 0 ELSE MulN(x - e.xfilt.hat_x_prev, rate)

\* OneEuroFilter::filter on the filter e (dt # 0): the filter after the call,
\* the value returned and the intermediate dx, edx and cutoff
OneEuroFilter(e, x, dt) ==
    LET rate   == DivN(Scale, dt)
        dx     == Derivative(e, x, rate)
        d      == LowPassFilter(e.dxfilt, dx, Alpha(rate, e.dcutoff))
        edx    == d.out
        cutoff == e.mincutoff + MulN(e.beta, Abs(edx))
        f      == LowPassFilter(e.xfilt, x, Alpha(rate, cutoff))
    IN  [first_time |-> FALSE, mincutoff |-> e.mincutoff, beta |-> e.beta,
         dcutoff |-> e.dcutoff, xfilt |-> LowFields(f), dxfilt |-> LowFields(d),
         out |-> f.out, dx |-> dx, edx |-> edx, cutoff |-> cutoff]

\* the fields of the filter in the result r of a call
EuroFields(r) ==
    [first_time |-> r.first_time, mincutoff |-> r.mincutoff, beta |-> r.beta,
     dcutoff |-> r.dcutoff, xfilt |-> r.xfilt, dxfilt |-> r.dxfilt]

\* constant inputs x: -0.7, 0, 0.5, 1.2, 2 and 3.3
EuroInputs == {-7, 0, 5, 12, 20, 33}

\* time steps dt: 0.1, 0.5 and 1 second
EuroDts == {1, 5, Scale}

\* constructor arguments (mincutoff, beta, dcutoff) explored
EuroParamSets ==
    {<<Scale, 0, Scale>>, <<Scale, Scale, Scale>>, <<5, 0, Scale>>, <<5, 20, 5>>}

\* what the caller has seen before its first call
NoEuroCall ==
    [tick |-> 0, x |-> 0, dt |-> 0, out |-> 0, dx |-> 0, edx |-> 0, cutoff |-> 0]

\* a new one-euro filter and a caller that has seen nothing
EuroStart ==
    /\ \E p \in EuroParamSets : euro = OneEuroNew(p[1], p[2], p[3])
    /\ elog = NoEuroCall

\* no one-euro filter is in use
EuroIdle ==
    /\ euro = OneEuroNew(Scale, 0, Scale)
    /\ elog = NoEuroCall

\* one call euro.filter(x, dt); tick tells one call from the next
EuroFilter(x, dt) ==
    \E r \in {OneEuroFilter(euro, x, dt)} :
        /\ euro' = EuroFields(r)
        /\ elog' = [tick |-> 1 - elog.tick, x |-> x, dt |-> dt, out |-> r.out,
                    dx |-> r.dx, edx |-> r.edx, cutoff |-> r.cutoff]

\* the stream of the caller: one value x and one step dt > 0, chosen at the
\* first call and fed on every call
EuroStream(x, dt) ==
    euro.first_time \/ (x = elog.x /\ dt = elog.dt)

\* a caller that feeds a constant input at a fixed rate, for ever
EuroCall ==
    /\ \E x \in EuroInputs, dt \in EuroDts : EuroStream(x, dt) /\ EuroFilter(x, dt)
    /\ UNCHANGED <<low, llog>>
    /\ UNCHANGED <<rounderVars, fixVars, polyVars>>

\* no filter of the smoothing kind is in use
FilterIdle == LowIdle /\ EuroIdle

---------------------------------------------------------------------------
(* AccumulatingRounder                                                     *)

\* AccumulatingRounder::new
RounderNew == 0

\* the accumulator after `self.accum += x.fract()`
RoundAccumulate(acc, x) == acc + Fract(x)

\* a carry test that lets the accumulator rest at exactly one whole unit
RoundCarriesStrict(a) == Abs(a) > Scale

\* the test `self.accum.abs() >= 1.0`
RoundCarries(a) == Abs(a) >= Scale

\* a round that nudges the result but keeps the whole unit in the accumulator
RoundStepKeepsUnit(acc, x) ==
    LET a == RoundAccumulate(acc, x)
    IN  IF RoundCarries(a)
        THEN [accum |-> a, res |-> Trunc(x) + Signum(a)]
        ELSE [accum |-> a, res |-> Trunc(x)]

\* AccumulatingRounder::round : the new accumulator and the i32 returned
RoundStep(acc, x) ==
    LET a == RoundAccumulate(acc, x)
        nudge == Signum(a)
    IN  IF RoundCarries(a)
        THEN [accum |-> a - nudge * Scale, res |-> Trunc(x) + nudge]
        ELSE [accum |-> a, res |-> Trunc(x)]

\* largest magnitude of an input to round, in grid units
MaxX == 25

\* number of calls of round explored on a stream of arbitrary inputs
MaxFreeCalls == 4

\* number of calls of round explored on a stream that repeats one input
MaxRoundCalls == 12

RoundInputs == (-MaxX)..MaxX

RounderStart ==
    /\ accum = RounderNew
    /\ rlog = [calls |-> 0, sumIn |-> 0, sumOut |-> 0, last |-> 0,
               first |-> 0, same |-> TRUE]

\* the streams explored: any inputs for MaxFreeCalls calls, one repeated
\* input for MaxRoundCalls calls
RoundStream(x) ==
    \/ rlog.calls < MaxFreeCalls
    \/ rlog.calls < MaxRoundCalls /\ rlog.same /\ x = rlog.first

\* one call rounder.round(x)
Round(x) ==
    /\ RoundStream(x)
    /\ \E r \in {RoundStep(accum, x)} :
           /\ accum' = r.accum
           /\ rlog' = [calls |-> rlog.calls + 1,
                       sumIn |-> rlog.sumIn + x,
                       sumOut |-> rlog.sumOut + r.res,
                       last |-> r.res,
                       first |-> IF rlog.calls = 0 THEN x
                                 ELSE IF rlog.same /\ x = rlog.first THEN x ELSE 0,
                       same |-> rlog.same /\ (rlog.calls = 0 \/ x = rlog.first)]

RoundCall ==
    (\E x \in RoundInputs : Round(x)) /\ UNCHANGED fixVars /\ UNCHANGED polyVars
    /\ UNCHANGED filterVars

---------------------------------------------------------------------------
(* FixationFilter                                                          *)

\* FixationFilter::MAX_BUFFER
MAX_BUFFER == 128

vec2(a, b) == [x |-> a, y |-> b]

\* `(self.min_fixation_s / dt).round() as usize` for dt # 0: the quotient
\* rounded half away from zero, and 0 for a negative quotient
SamplesNeeded(min_fixation_s, dt) ==
    IF min_fixation_s = 0 \/ (min_fixation_s > 0) # (dt > 0)
    THEN 0
    ELSE (2 * Abs(min_fixation_s) + Abs(dt)) \div (2 * Abs(dt))

\* a push that evicts only once the buffer is already over capacity
PushBoundedLate(buf, pt) ==
    IF Len(buf) > MAX_BUFFER THEN Append(Tail(buf), pt) ELSE Append(buf, pt)

\* the buffer after `if len >= MAX_BUFFER { pop_front() }; push_back(pt)`
PushBounded(buf, pt) ==
    IF Len(buf) >= MAX_BUFFER THEN Append(Tail(buf), pt) ELSE Append(buf, pt)

\* one pass of the I-DT loop body over el = buf[i] (1-based), then the rest
RECURSIVE ScanWindow(_, _, _, _)
ScanWindow(buf, i, mn, mx) ==
    IF i > Len(buf)
    THEN [min |-> mn, max |-> mx]
    ELSE LET el == buf[i]
             mn2 == vec2(IF el.x < mn.x THEN el.x ELSE mn.x,
                         IF el.y < mn.y THEN el.y ELSE mn.y)
             mx2 == vec2(IF el.x >= mx.x THEN el.x ELSE mx.x,
                         IF el.y >= mx.y THEN el.y ELSE mx.y)
         IN  ScanWindow(buf, i + 1, mn2, mx2)

\* a to_sample that always takes the whole history
ToSampleWhole(buf, min_fixation_s, dt) == Len(buf)

\* to_sample clamped to the buffer length
ToSample(buf, min_fixation_s, dt) ==
    LET n == SamplesNeeded(min_fixation_s, dt)
    IN  IF n > Len(buf) THEN Len(buf) ELSE n

\* a dispersion whose running min and max start at the origin, not at pt
DispersionFromOrigin(buf, pt, to_sample) ==
    LET w == ScanWindow(buf, Len(buf) - to_sample + 1, vec2(0, 0), vec2(0, 0))
    IN  (w.max.x - w.min.x) + (w.max.y - w.min.y)

\* a dispersion whose loop starts one element late
DispersionSkipsOldest(buf, pt, to_sample) ==
    LET w == ScanWindow(buf, Len(buf) - to_sample + 2, pt, pt)
    IN  (w.max.x - w.min.x) + (w.max.y - w.min.y)

\* dispersion of the last to_sample points of buf, whose last point is pt
Dispersion(buf, pt, to_sample) ==
    LET w == ScanWindow(buf, Len(buf) - to_sample + 1, pt, pt)
    IN  (w.max.x - w.min.x) + (w.max.y - w.min.y)

\* `dispersion < self.max_velocity * self.min_fixation_s`
IsFixation(dispersion, p) == dispersion * Scale < p.max_velocity * p.min_fixation_s

\* a transform that answers dt = 0 with the held fixation point
FixTransformHolds(buf, held, p, pt, dt) ==
    LET b == PushBounded(buf, pt)
        d == Dispersion(b, pt, ToSample(b, p.min_fixation_s, dt))
    IN  IF dt # 0 /\ IsFixation(d, p)
        THEN [buffer |-> b, cur |-> pt, out |-> pt, disp |-> d]
        ELSE [buffer |-> b, cur |-> held, out |-> held, disp |-> d]

\* a transform that returns on dt = 0 before it records the point
FixTransformZeroFirst(buf, held, p, pt, dt) ==
    LET b == PushBounded(buf, pt)
        d == Dispersion(b, pt, ToSample(b, p.min_fixation_s, dt))
    IN  IF dt = 0
        THEN [buffer |-> buf, cur |-> held, out |-> pt, disp |-> -1]
        ELSE IF IsFixation(d, p)
        THEN [buffer |-> b, cur |-> pt, out |-> pt, disp |-> d]
        ELSE [buffer |-> b, cur |-> held, out |-> held, disp |-> d]

\* FixationFilter::transform : the new buffer, the new cur, the point
\* returned and the dispersion computed (-1 when none is computed)
FixTransform(buf, held, p, pt, dt) ==
    LET b == PushBounded(buf, pt)
        d == Dispersion(b, pt, ToSample(b, p.min_fixation_s, dt))
    IN  IF dt = 0
        THEN [buffer |-> b, cur |-> held, out |-> pt, disp |-> -1]
        ELSE IF IsFixation(d, p)
        THEN [buffer |-> b, cur |-> pt, out |-> pt, disp |-> d]
        ELSE [buffer |-> b, cur |-> held, out |-> held, disp |-> d]

\* calls at the start of a stream whose points are arbitrary
FreeHead == 2

\* calls explored once the buffer is full
FreeTail == 2

MaxFixCalls == MAX_BUFFER + FreeTail

\* gaze samples, in grid units: pairwise dispersions 1, 2, 3, 4 and 6
FixPoints == {vec2(0, 0), vec2(1, 0), vec2(0, 2), vec2(3, 3)}

\* 0, two sampling intervals (0.1 s and 0.2 s) and a negative interval
FixDts == {0, 1, 2, -1}

FixParamSets ==
    {[min_fixation_s |-> a, max_velocity |-> b] : a \in {2, 3}, b \in {0, 10}}

\* FixationFilter::new, for each of the parameter sets
FixStart ==
    /\ fparams \in FixParamSets
    /\ buffer = << >>
    /\ cur = vec2(0, 0)
    /\ flog = [fed |-> << >>, dt |-> 0, after_zero |-> FALSE,
               out |-> vec2(0, 0), disp |-> -1]

\* a filter that is constructed and never called
FixIdle ==
    /\ fparams = [min_fixation_s |-> 2, max_velocity |-> 10]
    /\ buffer = << >>
    /\ cur = vec2(0, 0)
    /\ flog = [fed |-> << >>, dt |-> 0, after_zero |-> FALSE,
               out |-> vec2(0, 0), disp |-> -1]

\* the streams explored: arbitrary points for the first FreeHead calls and
\* once the buffer is full; in between the point repeats
FixStream(pt) ==
    /\ Len(flog.fed) < MaxFixCalls
    /\ \/ Len(flog.fed) < FreeHead
       \/ Len(flog.fed) >= MAX_BUFFER
       \/ Len(flog.fed) > 0 /\ pt = flog.fed[Len(flog.fed)]

\* the effect of one call filter.transform(pt, dt) on the filter and the log
TransformCall(pt, dt) ==
    /\ \E r \in {FixTransform(buffer, cur, fparams, pt, dt)} :
           /\ buffer' = r.buffer
           /\ cur' = r.cur
           /\ flog' = [fed |-> Append(flog.fed, pt), dt |-> dt,
                       after_zero |-> (Len(flog.fed) >= 1 /\ flog.dt = 0),
                       out |-> r.out, disp |-> r.disp]
    /\ UNCHANGED fparams

\* one call filter.transform(pt, dt) on the streams explored
Transform(pt, dt) == FixStream(pt) /\ TransformCall(pt, dt)

FixCall ==
    /\ \E pt \in FixPoints, dt \in FixDts : Transform(pt, dt)
    /\ UNCHANGED rounderVars
    /\ UNCHANGED polyVars
    /\ UNCHANGED filterVars

\* calls explored on an alternating stream
MaxAltCalls == 8

\* fixed sampling intervals of an alternating stream: 0.1 s, 0.2 s, 0.5 s
AltDts == {1, 2, 5}

\* a stream that alternates between its first two points, with one dt > 0
AltStream(pt, dt) ==
    /\ Len(flog.fed) < MaxAltCalls
    /\ Len(flog.fed) >= 2 => pt = flog.fed[Len(flog.fed) - 1]
    /\ Len(flog.fed) >= 1 => dt = flog.dt

\* one call filter.transform(pt, dt) on an alternating stream
AltCall ==
    /\ \E pt \in FixPoints, dt \in AltDts : AltStream(pt, dt) /\ TransformCall(pt, dt)
    /\ UNCHANGED rounderVars
    /\ UNCHANGED polyVars
    /\ UNCHANGED filterVars

---------------------------------------------------------------------------
(* PolyMouseTransform                                                      *)

\* `vec2(mouse_pt.x as f32, mouse_pt.y as f32)`
AsF32(pt) == vec2(pt.x * Scale, pt.y * Scale)

\* square of p.distance(q)
Dist2(p, q) == (p.x - q.x) * (p.x - q.x) + (p.y - q.y) * (p.y - q.y)

\* `p.distance(q) > r`, decided exactly
DistanceExceeds(p, q, r) == r < 0 \/ Dist2(p, q) > r * r

\* Vector2::magnitude, rounded down to the grid
Magnitude(v) == ISqrt(v.x * v.x + v.y * v.y)

\* `head_delta.magnitude() / dt`
HeadSpeed(head_delta, dt) == Div(Magnitude(head_delta), dt)

\* the smoothed head speed after this call's update
SmoothSpeed(shs, head_speed, p) ==
    Mul(shs, Scale - p.head_smoothing_factor) + Mul(head_speed, p.head_smoothing_factor)

\* jump_radius of looking_far_away
JumpRadius(shs, p) == p.min_jump + Mul(shs, p.speed_expand_factor)

\* small_jump of looking_far_away
SmallJump(shs, p) == Mul(JumpRadius(shs, p), p.small_jump_factor)

\* a looking_far_away that forgets the last jump destination
LookingFarAwayOfMouse(gaze_pt, mouse_pt, shs, ljd, p) ==
    DistanceExceeds(mouse_pt, gaze_pt, JumpRadius(shs, p))

\* PolyMouseTransform::looking_far_away
LookingFarAway(gaze_pt, mouse_pt, shs, ljd, p) ==
    /\ DistanceExceeds(mouse_pt, gaze_pt, JumpRadius(shs, p))
    /\ DistanceExceeds(ljd, gaze_pt, SmallJump(shs, p))

\* a trigger that already fires at the threshold speed
ThrowTriggeredAtThresh(gaze_pt, mouse_pt, shs, ljd, p) ==
    LookingFarAway(gaze_pt, mouse_pt, shs, ljd, p) /\ shs >= p.throw_thresh_speed

\* the condition of `if looking_far_away(..) && smoothed_head_speed > thresh`
ThrowTriggered(gaze_pt, mouse_pt, shs, ljd, p) ==
    LookingFarAway(gaze_pt, mouse_pt, shs, ljd, p) /\ shs > p.throw_thresh_speed

\* q * sqrt(d2) <= x, for q >= 1, x >= 0 and d2 >= 1 with r = ISqrt(d2),
\* decided exactly: with x = a q + b it is
\* d2 <= floor(x^2 / q^2) = a^2 + (2ab + b^2 div q) div q
FitsUnder(q, x, d2, r) ==
    LET a == x \div q
        b == x % q
    IN  IF a > r THEN TRUE
        ELSE d2 <= a * a + ((2 * a * b + (b * b) \div q) \div q)

\* the largest q in lo..hi with q * sqrt(d2) <= x, given that lo is one
RECURSIVE FloorQuotBetween(_, _, _, _, _)
FloorQuotBetween(x, d2, r, lo, hi) ==
    LET Narrow(mid) == IF FitsUnder(mid, x, d2, r)
                       THEN FloorQuotBetween(x, d2, r, mid, hi)
                       ELSE FloorQuotBetween(x, d2, r, lo, mid - 1)
    IN  IF lo >= hi THEN lo
        ELSE CHOOSE q \in {Narrow(mid) : mid \in {(lo + hi + 1) \div 2}} : TRUE

\* floor(x / sqrt(d2)), for x >= 0 and d2 >= 1 with r = ISqrt(d2): it lies
\* between x div (r + 1) and x div r
FloorOverSqrt(x, d2, r) ==
    CHOOSE q \in {FloorQuotBetween(a, b, c, a \div (c + 1), a \div c) :
                      a \in {x}, b \in {d2}, c \in {r}} : TRUE

\* x / sqrt(d2) is the whole number q
WholeOverSqrt(q, x, d2, r) ==
    LET a == IF q = 0 THEN 0 ELSE x \div q
        b == IF q = 0 THEN 0 ELSE x % q
    IN  IF q = 0 THEN x = 0
        ELSE /\ a <= r
             /\ (b * b) % q = 0
             /\ (2 * a * b + (b * b) \div q) % q = 0
             /\ d2 = a * a + ((2 * a * b + (b * b) \div q) \div q)

\* one axis of `(base + dirn * scalar) as i32` where dirn = delta / sqrt(d2)
\* is that axis of the normalized vector and r = ISqrt(d2): the real value,
\* truncated toward zero to a whole number
AlongAsI32(base, delta, d2, r, scalar) ==
    LET x == Abs(delta) * Abs(scalar)
        up == (delta >= 0) = (scalar >= 0)
        fl == FloorOverSqrt(x, d2, r)
        ce == IF WholeOverSqrt(fl, x, d2, r) THEN fl ELSE fl + 1
        lo == IF up THEN base + fl ELSE base - ce
        hi == IF up THEN base + ce ELSE base - fl
    IN  IF lo >= 0 THEN lo \div Scale ELSE -((-hi) \div Scale)

\* the test `mouse_pt_f.distance(gaze_pt) > throw_dist + self.params.min_jump`
MovesPartway(gaze_pt, mouse_pt, p, dt) ==
    DistanceExceeds(mouse_pt, gaze_pt, Mul(p.throw_speed, dt) + p.min_jump)

\* i32::MIN
MinI32 == -2147483647 - 1

\* the values `NaN as i32` can produce: 0 where the cast saturates (Rust 1.45
\* and later); before that the cast of a NaN is undefined and the x86
\* conversion instruction yields i32::MIN
NanAsI32 == {0, MinI32}

\* the values the casts of this call can produce for a NaN: the call casts a
\* NaN only when it normalizes the zero vector
NanCasts(gaze_pt, mouse_pt) ==
    IF Dist2(AsF32(mouse_pt), gaze_pt) = 0 THEN NanAsI32 ELSE {0}

\* a throw whose step is throw_speed, not throw_speed * dt
ThrowDestPerSecond(gaze_pt, mouse_pt, p, dt, nan) ==
    LET d2 == Dist2(mouse_pt, gaze_pt)
        dx == gaze_pt.x - mouse_pt.x
        dy == gaze_pt.y - mouse_pt.y
        r == ISqrt(d2)
    IN  IF d2 = 0 THEN vec2(nan, nan)
        ELSE IF MovesPartway(gaze_pt, mouse_pt, p, dt)
        THEN vec2(AlongAsI32(mouse_pt.x, dx, d2, r, p.throw_speed),
                  AlongAsI32(mouse_pt.y, dy, d2, r, p.throw_speed))
        ELSE vec2(AlongAsI32(gaze_pt.x, dx, d2, r, -p.min_jump),
                  AlongAsI32(gaze_pt.y, dy, d2, r, -p.min_jump))

\* the `if self.throwing` block: the point returned.  Normalizing the zero
\* vector gives NaN in both axes, and `NaN as i32` is nan.
ThrowDest(gaze_pt, mouse_pt, p, dt, nan) ==
    LET d2 == Dist2(mouse_pt, gaze_pt)
        dx == gaze_pt.x - mouse_pt.x
        dy == gaze_pt.y - mouse_pt.y
        r == ISqrt(d2)
        throw_dist == Mul(p.throw_speed, dt)
    IN  IF d2 = 0 THEN vec2(nan, nan)
        ELSE IF MovesPartway(gaze_pt, mouse_pt, p, dt)
        THEN vec2(AlongAsI32(mouse_pt.x, dx, d2, r, throw_dist),
                  AlongAsI32(mouse_pt.y, dy, d2, r, throw_dist))
        ELSE vec2(AlongAsI32(gaze_pt.x, dx, d2, r, -p.min_jump),
                  AlongAsI32(gaze_pt.y, dy, d2, r, -p.min_jump))

\* a throw that lasts only while its trigger holds
ThrowsWhileTriggered(st, gaze_pt, mouse_pt, shs, p) ==
    ThrowTriggered(gaze_pt, mouse_pt, shs, st.last_jump_destination, p)

\* self.throwing at `if self.throwing`: it was set by an earlier call or is
\* set by the trigger of this one
Throws(st, gaze_pt, mouse_pt, shs, p) ==
    \/ st.throwing
    \/ ThrowTriggered(gaze_pt, mouse_pt, shs, st.last_jump_destination, p)

\* rounders that take head_delta in on every call
RoundersAdvanced(st, head_delta, thr) ==
    [x |-> RoundStep(st.x_round, head_delta.x),
     y |-> RoundStep(st.y_round, head_delta.y)]

\* x_round and y_round after the call and what their calls of round
\* returned: round is called in the else branch only
RoundersAfter(st, head_delta, thr) ==
    IF thr
    THEN [x |-> [accum |-> st.x_round, res |-> 0],
          y |-> [accum |-> st.y_round, res |-> 0]]
    ELSE [x |-> RoundStep(st.x_round, head_delta.x),
          y |-> RoundStep(st.y_round, head_delta.y)]

\* a move that takes both axes from the rounder of x
TrackDestOneRounder(mouse_pt, rx, ry) == vec2(mouse_pt.x + rx, mouse_pt.y + rx)

\* `mouse_pt + rounded_move`
TrackDest(mouse_pt, rx, ry) == vec2(mouse_pt.x + rx, mouse_pt.y + ry)

\* PolyMouseTransform::transform on the state st: the state after the call,
\* the branch taken and the point returned, where a cast of NaN yields nan
PolyStep(st, p, gaze_pt, mouse_pt, head_delta, dt, nan) ==
    LET mouse_pt_f == AsF32(mouse_pt)
        shs == SmoothSpeed(st.smoothed_head_speed, HeadSpeed(head_delta, dt), p)
        thr == Throws(st, gaze_pt, mouse_pt_f, shs, p)
        part == MovesPartway(gaze_pt, mouse_pt_f, p, dt)
        rnd == RoundersAfter(st, head_delta, thr)
    IN  IF thr
        THEN [throwing |-> part,
              smoothed_head_speed |-> shs,
              last_jump_destination |->
                  IF part THEN st.last_jump_destination ELSE gaze_pt,
              x_round |-> rnd.x.accum,
              y_round |-> rnd.y.accum,
              branch |-> IF part THEN "part" ELSE "snap",
              ret |-> ThrowDest(gaze_pt, mouse_pt_f, p, dt, nan)]
        ELSE [throwing |-> FALSE,
              smoothed_head_speed |-> shs,
              last_jump_destination |-> st.last_jump_destination,
              x_round |-> rnd.x.accum,
              y_round |-> rnd.y.accum,
              branch |-> "track",
              ret |-> TrackDest(mouse_pt, rnd.x.res, rnd.y.res)]

\* number of transform calls explored on arbitrary arguments
MaxPolyCalls == 3

\* PolyMouseParams, in grid units.  The first is the end-to-end scenario
\* (min_jump 5, speed_expand_factor 0, head_smoothing_factor 1,
\* throw_thresh_speed 1, throw_speed 100, small_jump_factor 0.1); the others
\* vary the throw speed, the smoothing, the expansion and the sign of
\* small_jump_factor.
PolyParamSets ==
    { [min_jump |-> 50, speed_expand_factor |-> 0, head_smoothing_factor |-> 10,
       throw_thresh_speed |-> 10, throw_speed |-> 1000, small_jump_factor |-> 1],
      [min_jump |-> 50, speed_expand_factor |-> 0, head_smoothing_factor |-> 10,
       throw_thresh_speed |-> 10, throw_speed |-> 50, small_jump_factor |-> 1],
      [min_jump |-> 20, speed_expand_factor |-> 1, head_smoothing_factor |-> 5,
       throw_thresh_speed |-> 10, throw_speed |-> 200, small_jump_factor |-> 5],
      [min_jump |-> 0, speed_expand_factor |-> 0, head_smoothing_factor |-> 10,
       throw_thresh_speed |-> 10, throw_speed |-> 100, small_jump_factor |-> 0],
      [min_jump |-> 50, speed_expand_factor |-> 0, head_smoothing_factor |-> 10,
       throw_thresh_speed |-> 10, throw_speed |-> 1000, small_jump_factor |-> -1] }

\* gaze points (f32 pairs, grid units): (200, 0), (12, 9) and (0.3, 0.4)
GazePoints == {vec2(2000, 0), vec2(120, 90), vec2(3, 4)}

\* mouse positions (i32 pairs, pixels)
MousePoints == {vec2(0, 0), vec2(10, 0), vec2(12, 9)}

\* head deltas (grid units): none, (0.6, 0.8) and (3, 4)
HeadDeltas == {vec2(0, 0), vec2(6, 8), vec2(30, 40)}

\* frame times dt > 0: 0.1 s and 1 s
PolyDts == {1, 10}

\* the record of a call: before the first call only n and tick mean anything
NoCall(g, m) ==
    [n |-> 0, tick |-> 0, gaze |-> g, mouse |-> m, head_delta |-> vec2(0, 0),
     dt |-> 1, branch |-> "none", ret |-> m]

\* PolyMouseTransform::new, for each of the parameter sets
PolyStart ==
    /\ pparams \in PolyParamSets
    /\ throwing = FALSE
    /\ smoothed_head_speed = 0
    /\ last_jump_destination = vec2(0, 0)
    /\ x_round = RounderNew
    /\ y_round = RounderNew

\* a transform that is constructed and never called
PolyIdle ==
    /\ PolyStart
    /\ pparams = [min_jump |-> 50, speed_expand_factor |-> 0,
                  head_smoothing_factor |-> 10, throw_thresh_speed |-> 10,
                  throw_speed |-> 1000, small_jump_factor |-> 1]
    /\ call = NoCall(vec2(0, 0), vec2(0, 0))

\* one call transform(gaze_pt, mouse_pt, head_delta, dt)
PolyTransform(gaze_pt, mouse_pt, head_delta, dt) ==
    LET st == [throwing |-> throwing,
               smoothed_head_speed |-> smoothed_head_speed,
               last_jump_destination |-> last_jump_destination,
               x_round |-> x_round, y_round |-> y_round]
    IN  \E nan \in NanCasts(gaze_pt, mouse_pt) :
        \E r \in {PolyStep(st, pparams, gaze_pt, mouse_pt, head_delta, dt, nan)} :
        /\ throwing' = r.throwing
        /\ smoothed_head_speed' = r.smoothed_head_speed
        /\ last_jump_destination' = r.last_jump_destination
        /\ x_round' = r.x_round
        /\ y_round' = r.y_round
        /\ call' = [n |-> IF call.n < MaxPolyCalls THEN call.n + 1 ELSE call.n,
                    tick |-> 1 - call.tick,
                    gaze |-> gaze_pt, mouse |-> mouse_pt,
                    head_delta |-> head_delta, dt |-> dt,
                    branch |-> r.branch, ret |-> r.ret]
        /\ UNCHANGED pparams

\* the points of pts that can be a position of the mouse on a screen
OnScreen(pts) == {pt \in pts : pt.x # MinI32 /\ pt.y # MinI32}

\* a call on arbitrary arguments; the mouse position may also be the one
\* the previous call returned
PolyCall ==
    /\ call.n < MaxPolyCalls
    /\ \E gaze_pt \in GazePoints, mouse_pt \in MousePoints \cup OnScreen({call.ret}),
          head_delta \in HeadDeltas, dt \in PolyDts :
            PolyTransform(gaze_pt, mouse_pt, head_delta, dt)
    /\ UNCHANGED rounderVars
    /\ UNCHANGED fixVars
    /\ UNCHANGED filterVars

\* the head deltas of the feedback loop: arbitrary for the first calls, then
\* the head is at rest
LoopDeltas == IF call.n < MaxPolyCalls THEN HeadDeltas ELSE {vec2(0, 0)}

\* a caller that keeps the gaze point of its first call and passes each
\* returned position back as the next mouse_pt, as long as the position is
\* one on the screen
LoopCall ==
    /\ \E head_delta \in LoopDeltas, dt \in PolyDts, mouse_pt \in OnScreen({call.ret}) :
            PolyTransform(call.gaze, mouse_pt, head_delta, dt)
    /\ UNCHANGED rounderVars
    /\ UNCHANGED fixVars
    /\ UNCHANGED filterVars

---------------------------------------------------------------------------
(* Specifications                                                          *)

LowInit == LowStart /\ EuroIdle /\ RounderStart /\ FixIdle /\ PolyIdle

LowNext == LowCall

SpecLow == LowInit /\ [][LowNext]_vars

EuroInit == EuroStart /\ LowIdle /\ RounderStart /\ FixIdle /\ PolyIdle

EuroNext == EuroCall

\* the caller filters every sample of its stream, so a call is always taken
SpecEuro == EuroInit /\ [][EuroNext]_vars /\ WF_vars(EuroCall)

RounderInit == RounderStart /\ FixIdle /\ PolyIdle /\ FilterIdle

RounderNext == RoundCall

SpecRounder == RounderInit /\ [][RounderNext]_vars

FixInit == FixStart /\ RounderStart /\ PolyIdle /\ FilterIdle

FixNext == FixCall

SpecFix == FixInit /\ [][FixNext]_vars

AltNext == AltCall

SpecAlt == FixInit /\ [][AltNext]_vars

PolyInit ==
    /\ PolyStart
    /\ call = NoCall(vec2(0, 0), vec2(0, 0))
    /\ RounderStart
    /\ FixIdle
    /\ FilterIdle

PolyNext == PolyCall

SpecPoly == PolyInit /\ [][PolyNext]_vars

LoopInit ==
    /\ PolyStart
    /\ \E g \in GazePoints, m \in MousePoints : call = NoCall(g, m)
    /\ RounderStart
    /\ FixIdle
    /\ FilterIdle

LoopNext == LoopCall

\* the caller calls transform on every frame, so a call is always taken
SpecLoop == LoopInit /\ [][LoopNext]_vars /\ WF_vars(LoopCall)

---------------------------------------------------------------------------
(* Claims about the LowPassFilter and the OneEuroFilter                    *)

\* the step is a call of LowPassFilter::filter whose first call returns x
\* and stores x, and whose later calls blend x with the stored output
C12_Call ==
    llog'.calls = llog.calls + 1 =>
        IF llog.calls = 0
        THEN llog'.out = llog'.x /\ low'.hat_x_prev = llog'.x
        ELSE /\ llog'.out = MulN(llog'.alpha, llog'.x)
                             + MulN(Scale - llog'.alpha, low.hat_x_prev)
             /\ low'.hat_x_prev = llog'.out

C12_AmendedCall ==
    llog'.calls = llog.calls + 1 =>
        LET prev == IF llog.calls = 0 THEN llog'.x ELSE low.hat_x_prev
        IN  /\ llog'.out = MulN(llog'.alpha, llog'.x)
                            + MulN(Scale - llog'.alpha, prev)
            /\ low'.hat_x_prev = llog'.out
            /\ ~low'.first_time
            /\ (llog.calls = 0 /\ llog'.alpha \in {0, Scale} => llog'.out = llog'.x)

Settled ==
    /\ ~euro.first_time
    /\ elog.out = elog.x
    /\ elog.edx = 0
    /\ elog.cutoff = euro.mincutoff

C13_AmendedCall ==
    elog'.tick # elog.tick =>
        LET rate == DivN(Scale, elog'.dt)
        IN  /\ ~euro'.first_time
            /\ IF euro.first_time
               THEN /\ elog'.dx = 0
                    /\ elog'.edx = 0
                    /\ elog'.cutoff = euro.mincutoff
               ELSE elog'.dx = MulN(elog'.x - euro.xfilt.hat_x_prev, rate)
            /\ (~euro.first_time /\ euro.xfilt.hat_x_prev = elog'.x => elog'.dx = 0)
            /\ (elog'.edx = 0 => elog'.cutoff = euro.mincutoff)
            /\ elog'.cutoff = euro.mincutoff + MulN(euro.beta, Abs(elog'.edx))
            /\ euro'.xfilt.hat_x_prev = elog'.out
            /\ euro'.dxfilt.hat_x_prev = elog'.edx

---------------------------------------------------------------------------
(* Claims about the AccumulatingRounder                                    *)


\* C6: after every call of round the carried fraction lies strictly inside
\* (-1, 1), and the sum of the integers emitted so far differs from the sum
\* of the inputs by exactly the carried fraction, hence by less than 1.
C6_BoundedError ==
    /\ -Scale < accum /\ accum < Scale
    /\ rlog.sumIn - rlog.sumOut * Scale = accum
    /\ Abs(rlog.sumIn - rlog.sumOut * Scale) < Scale

\* a carry toward minus infinity has happened after carries toward plus
\* infinity: the emitted sum is positive and the carried fraction negative
C6_Witness == rlog.calls >= 3 /\ rlog.sumOut > 0 /\ accum < 0 /\ rlog.last < 0

\* the stream so far is n >= 1 calls of round(0.3) on a fresh rounder
FedThreeTenths == rlog.calls >= 1 /\ rlog.same /\ rlog.first = 3

\* C7 as stated: feeding 0.3 repeatedly emits a 1 on every fourth call and
\* a 0 on every other call.
C7_EveryFourth ==
    FedThreeTenths => rlog.last = (IF rlog.calls % 4 = 0 THEN 1 ELSE 0)

\* C7 as amended: feeding 0.3 repeatedly emits 0,0,0,1,0,0,1,0,0,1 and
\* repeats with period ten (a 1 on calls 4, 7 and 10 of every ten), so that
\* n calls have emitted floor(0.3 n) and the long-run average is 0.3.
C7_PeriodTen ==
    FedThreeTenths =>
        /\ rlog.last = (IF rlog.calls % 10 \in {4, 7, 0} THEN 1 ELSE 0)
        /\ rlog.sumOut = (3 * rlog.calls) \div 10

\* the eleventh call of round(0.3): one full period has been emitted
C7_Witness == FedThreeTenths /\ rlog.calls = 11 /\ rlog.sumOut = 3 /\ rlog.last = 0

---------------------------------------------------------------------------
(* Claims about the FixationFilter                                         *)

\* number of transform calls made so far
FixCalls == Len(flog.fed)

\* the point passed to the latest transform call
LastPoint == flog.fed[FixCalls]

\* C8: the history is a bounded FIFO: it never holds more than 128 points
\* and it holds exactly the most recent min(n, 128) points passed in, in
\* arrival order (so a point arriving at capacity evicts the oldest one).
C8_BoundedFifo ==
    LET n == FixCalls
        k == IF n < MAX_BUFFER THEN n ELSE MAX_BUFFER
    IN  /\ Len(buffer) <= MAX_BUFFER
        /\ Len(buffer) = k
        /\ \A i \in 1..k : buffer[i] = flog.fed[n - k + i]

\* two points have arrived at capacity and the two oldest, which differ
\* from each other, are gone
C8_Witness ==
    /\ FixCalls = MAX_BUFFER + 2
    /\ Len(buffer) = MAX_BUFFER
    /\ flog.fed[1] # flog.fed[2]
    /\ flog.fed[1] # flog.fed[3]
    /\ buffer[1] = flog.fed[3]
    /\ buffer[MAX_BUFFER] # buffer[MAX_BUFFER - 1]

\* C9: a transform call with dt = 0 returns exactly the point passed in,
\* whatever the history and the held fixation point.
C9_ZeroDtReturnsInput ==
    (FixCalls >= 1 /\ flog.dt = 0) => flog.out = LastPoint

\* a dt = 0 call at capacity whose input differs from the held fixation
C9_Witness ==
    /\ FixCalls > MAX_BUFFER
    /\ flog.dt = 0
    /\ cur # vec2(0, 0)
    /\ flog.out # cur

\* every point passed in so far is the same point
IdenticalStream == \A i \in 1..FixCalls : flog.fed[i] = flog.fed[1]

\* C10 as stated: on a stream of identical points a call with dt # 0
\* computes dispersion 0, returns the latest point and holds it.
C10_IdenticalUpdates ==
    (FixCalls >= 1 /\ IdenticalStream /\ flog.dt # 0) =>
        /\ flog.disp = 0
        /\ flog.out = LastPoint
        /\ cur = LastPoint

\* C10 as amended: the same, for a filter whose fixation threshold
\* max_velocity * min_fixation_seconds is positive; the dispersion is 0
\* whatever the threshold.
C10_IdenticalUpdatesPositive ==
    (FixCalls >= 1 /\ IdenticalStream /\ flog.dt # 0) =>
        /\ flog.disp = 0
        /\ fparams.max_velocity * fparams.min_fixation_s > 0 =>
               (flog.out = LastPoint /\ cur = LastPoint)

\* a full buffer of one point away from the origin, updated by a dt > 0 call
C10_Witness ==
    /\ FixCalls = MAX_BUFFER + 1
    /\ IdenticalStream
    /\ flog.dt > 0
    /\ fparams.max_velocity > 0
    /\ LastPoint = vec2(3, 3)
    /\ flog.out = vec2(3, 3)

\* the stream so far alternates between two points whose range exceeds the
\* fixation threshold max_velocity * min_fixation_s
SpreadStream(log) ==
    /\ Len(log.fed) >= 2
    /\ (Abs(log.fed[1].x - log.fed[2].x) + Abs(log.fed[1].y - log.fed[2].y)) * Scale
           > fparams.max_velocity * fparams.min_fixation_s

\* what C11 says of one call, reading "the window is full" as: the history
\* holds at least samples_needed points
C11_Call ==
    (/\ SpreadStream(flog')
     /\ Len(flog'.fed) >= SamplesNeeded(fparams.min_fixation_s, flog'.dt)) =>
        (cur' = cur /\ flog'.out = cur)

\* C11 as stated: on a stream alternating between two points whose range
\* exceeds max_velocity * min_fixation_seconds, with a fixed dt > 0, once the
\* history holds a full window every call leaves the held fixation point
\* unchanged and returns it.
C11_SpreadNeverUpdates == [][C11_Call]_vars

\* what the amended C11 says of one call
C11_AmendedCall ==
    (/\ SpreadStream(flog')
     /\ SamplesNeeded(fparams.min_fixation_s, flog'.dt) >= 2) =>
        (cur' = cur /\ flog'.out = cur)

\* C11 as amended: the same, for a window of at least two samples
\* (round(min_fixation_seconds / dt) >= 2), from the second call on; a
\* window of one sample or none holds no spread and the output follows the
\* input.
C11_SpreadNeverUpdatesWindowTwo == [][C11_AmendedCall]_vars

\* the sixth call of an alternating stream with a window of three samples
\* and a positive threshold returned the point held since the first call
C11_Witness ==
    /\ FixCalls = 6
    /\ SpreadStream(flog)
    /\ SamplesNeeded(fparams.min_fixation_s, flog.dt) = 3
    /\ fparams.max_velocity > 0
    /\ flog.out = cur
    /\ cur = flog.fed[1]
    /\ cur # LastPoint
    /\ cur # vec2(0, 0)

\* the k most recent points passed to transform
RecentPoints(log, k) == {log.fed[i] : i \in (Len(log.fed) - k + 1)..Len(log.fed)}

\* the largest and the smallest of a non-empty set of numbers
MaxOf(S) == CHOOSE m \in S : \A v \in S : v <= m

MinOf(S) == CHOOSE m \in S : \A v \in S : m <= v

\* (max.x - min.x) + (max.y - min.y) over a set of points, 0 for no point
RangeOf(P) ==
    IF P = {} THEN 0
    ELSE (MaxOf({q.x : q \in P}) - MinOf({q.x : q \in P}))
         + (MaxOf({q.y : q \in P}) - MinOf({q.y : q \in P}))

\* samples_needed of the latest call, clamped to the history length, the
\* history being the last MAX_BUFFER points and including the new one
WindowLength(log) ==
    LET n == SamplesNeeded(fparams.min_fixation_s, log.dt)
        len == IF Len(log.fed) < MAX_BUFFER THEN Len(log.fed) ELSE MAX_BUFFER
    IN  IF n > len THEN len ELSE n

\* what C18 says of one call with dt # 0
C18_Call ==
    flog'.dt # 0 =>
        LET d == RangeOf(RecentPoints(flog', WindowLength(flog')))
            pt == flog'.fed[Len(flog'.fed)]
        IN  /\ flog'.disp = d
            /\ IF d * Scale < fparams.max_velocity * fparams.min_fixation_s
               THEN cur' = pt /\ flog'.out = pt
               ELSE cur' = cur /\ flog'.out = cur

\* C18: for dt # 0 the dispersion is (max.x - min.x) + (max.y - min.y) over
\* exactly the most recent samples_needed points (round(min_fixation_s / dt)
\* clamped to the history length, the new point included), older points
\* never count; the call holds and returns the new point if the dispersion
\* is below max_velocity * min_fixation_s and otherwise returns the point
\* held before, unchanged.
C18_WindowedDispersion == [][C18_Call]_vars

\* a call whose window of two equal points leaves out an older, different
\* point: dispersion 0, and the new point is held and returned
C18_Witness ==
    /\ FixCalls = 3
    /\ flog.dt > 0
    /\ WindowLength(flog) = 2
    /\ flog.fed[1] # flog.fed[2]
    /\ flog.fed[2] = flog.fed[3]
    /\ flog.disp = 0
    /\ RangeOf(RecentPoints(flog, 3)) * Scale
           >= fparams.max_velocity * fparams.min_fixation_s
    /\ fparams.max_velocity > 0
    /\ cur = LastPoint
    /\ flog.out = LastPoint

\* what C20 says of a dt = 0 call and of the call that follows one
C20_Call ==
    /\ flog'.dt = 0 =>
           /\ cur' = cur
           /\ Len(buffer') = (IF Len(buffer) < MAX_BUFFER THEN Len(buffer) + 1
                                                             ELSE MAX_BUFFER)
           /\ buffer'[Len(buffer')] = flog'.fed[Len(flog'.fed)]
           /\ Len(buffer) >= MAX_BUFFER =>
                  \A i \in 1..(MAX_BUFFER - 1) : buffer'[i] = buffer[i + 1]
           /\ Len(buffer) < MAX_BUFFER =>
                  \A i \in 1..Len(buffer) : buffer'[i] = buffer[i]
    /\ (FixCalls >= 1 /\ flog.dt = 0 /\ flog'.dt # 0) =>
           /\ flog'.disp = RangeOf(RecentPoints(flog', WindowLength(flog')))
           /\ ~IsFixation(flog'.disp, fparams) => (flog'.out = cur /\ cur' = cur)

\* C20: a call with dt = 0 appends the point to the history (evicting the
\* oldest at capacity) and leaves current_fixation_point unchanged; the
\* following call with dt # 0 computes its dispersion over a window that
\* includes the dt = 0 sample, and if it fails the dispersion test it
\* returns the fixation point held before the dt = 0 call.
C20_ZeroDtIsSampled == [][C20_Call]_vars

\* at capacity, a dt = 0 call brought a point c that differs from the held
\* point, and the next call, with dt # 0 and another point, failed the
\* dispersion test only through c and returned the point held before
C20_Witness ==
    /\ FixCalls = MAX_BUFFER + 2
    /\ flog.after_zero
    /\ flog.dt > 0
    /\ WindowLength(flog) = 2
    /\ flog.fed[FixCalls - 1] # LastPoint
    /\ flog.fed[FixCalls - 1] # cur
    /\ flog.disp > 0
    /\ ~IsFixation(flog.disp, fparams)
    /\ fparams.max_velocity > 0
    /\ flog.out = cur
    /\ cur # LastPoint
    /\ cur # vec2(0, 0)

---------------------------------------------------------------------------
(* Claims about the PolyMouseTransform                                     *)

\* the parameters of the end-to-end scenario
ScenarioParams ==
    [min_jump |-> 50, speed_expand_factor |-> 0, head_smoothing_factor |-> 10,
     throw_thresh_speed |-> 10, throw_speed |-> 1000, small_jump_factor |-> 1]

\* the call took the `if self.throwing` block
TookThrowBranch(c) == c.branch \in {"part", "snap"}

\* distance(mouse, gaze) > jump_radius, with the smoothed speed shs
MouseFarFromGaze(c, shs) ==
    DistanceExceeds(AsF32(c.mouse), c.gaze,
                    pparams.min_jump + Mul(shs, pparams.speed_expand_factor))

\* distance(last_jump_destination, gaze) > jump_radius * small_jump_factor
GazeFarFromLastJump(c, shs, ljd) ==
    DistanceExceeds(ljd, c.gaze,
                    Mul(pparams.min_jump + Mul(shs, pparams.speed_expand_factor),
                        pparams.small_jump_factor))

\* what C1 says of one call: made while Tracking, it takes the throw branch
\* iff the three conditions hold with the updated smoothed speed, and
\* otherwise it stays in Tracking
C1_Call ==
    ~throwing =>
        /\ TookThrowBranch(call') <=>
               /\ MouseFarFromGaze(call', smoothed_head_speed')
               /\ GazeFarFromLastJump(call', smoothed_head_speed', last_jump_destination)
               /\ smoothed_head_speed' > pparams.throw_thresh_speed
        /\ ~TookThrowBranch(call') => (call'.branch = "track" /\ ~throwing')

\* C1: a new transform starts in Tracking, and a call made while Tracking
\* takes the throw branch if and only if gaze is farther than jump_radius
\* from the mouse, farther than jump_radius * small_jump_factor from the
\* last jump destination, and the smoothed head speed, already updated for
\* this call, exceeds throw_thresh_speed.
C1_ThrowIffFarAndFast == ~throwing /\ [][C1_Call]_vars

\* a first call that threw although the radius had grown with the speed
C1_Witness ==
    /\ call.n = 1
    /\ call.branch = "part"
    /\ throwing
    /\ pparams.speed_expand_factor > 0
    /\ smoothed_head_speed > pparams.throw_thresh_speed

\* the point pt is strictly closer to the gaze of call c than its mouse
StrictlyCloser(c) == Dist2(AsF32(c.ret), c.gaze) < Dist2(AsF32(c.mouse), c.gaze)

\* what C2 says of one call made while Tracking
C2_Call ==
    (/\ ~throwing
     /\ smoothed_head_speed' > pparams.throw_thresh_speed
     /\ MouseFarFromGaze(call', smoothed_head_speed')) =>
        (throwing' /\ StrictlyCloser(call'))

\* C2: in Tracking, once the smoothed head speed exceeds throw_thresh_speed
\* and gaze is farther than jump_radius from the mouse, the next call
\* returns with throwing true and with a position strictly closer to the
\* gaze point than the mouse position passed in.
C2_ThrowsAndApproaches == [][C2_Call]_vars

\* a first call that started a throw of half a pixel toward a gaze point far
\* from the mouse and from the last jump destination, and returned the
\* mouse position it was given
C2_Witness ==
    /\ call.n = 1
    /\ call.branch = "part"
    /\ throwing
    /\ smoothed_head_speed > pparams.throw_thresh_speed
    /\ MouseFarFromGaze(call, smoothed_head_speed)
    /\ GazeFarFromLastJump(call, smoothed_head_speed, last_jump_destination)
    /\ Mul(pparams.throw_speed, call.dt) < Scale
    /\ call.gaze = vec2(2000, 0)
    /\ call.mouse = vec2(0, 0)
    /\ call.ret = call.mouse

\* the latest call returned in Tracking, within min_jump of its gaze point,
\* with that gaze point as the last jump destination
Landed ==
    /\ ~throwing
    /\ OnScreen({call.ret}) # {}
    /\ ~DistanceExceeds(AsF32(call.ret), call.gaze, pparams.min_jump)
    /\ last_jump_destination = call.gaze

\* C3: once a throw has started toward a fixed gaze point, with dt > 0 and
\* each returned position passed back as the next mouse_pt, repeated calls
\* eventually return a position within min_jump of the gaze point with the
\* state back in Tracking, and from then on last_jump_destination is that
\* gaze point.
C3_ThrowLands ==
    /\ throwing ~> Landed
    /\ [](Landed => [](last_jump_destination = call.gaze))

\* a throw of half a pixel per call is under way and the position returned
\* is the position passed in
C3_Stalled ==
    /\ throwing
    /\ call.n >= 2
    /\ call.branch = "part"
    /\ call.ret = call.mouse
    /\ Mul(pparams.throw_speed, call.dt) < Scale

\* the first call of the end-to-end scenario has been made
ScenarioCall ==
    /\ call.n = 1
    /\ pparams = ScenarioParams
    /\ call.gaze = vec2(2000, 0)
    /\ call.mouse = vec2(0, 0)
    /\ call.dt = 1
    /\ HeadSpeed(call.head_delta, call.dt) > 10

\* C4: with the scenario parameters, the first call of a fresh transform
\* with gaze (200, 0), mouse (0, 0), dt = 0.1 and a head speed above 1 ends
\* in Throwing and returns (10, 0).
C4_ScenarioFirstStep == ScenarioCall => (throwing /\ call.ret = vec2(10, 0))

C4_Witness == ScenarioCall /\ call.branch = "part" /\ call.head_delta = vec2(6, 8)

\* min_jump, speed_expand_factor and small_jump_factor are non-negative
NonNegativeParams ==
    /\ pparams.min_jump >= 0
    /\ pparams.speed_expand_factor >= 0
    /\ pparams.small_jump_factor >= 0

\* what C5 says of one call made while Tracking
C5_Call ==
    (/\ ~throwing
     /\ NonNegativeParams
     /\ \/ ~GazeFarFromLastJump(call', smoothed_head_speed', last_jump_destination)
        \/ call'.gaze = last_jump_destination) =>
        (call'.branch = "track" /\ ~throwing')

\* C5: with non-negative min_jump, speed_expand_factor and
\* small_jump_factor, a call made while Tracking whose gaze point lies
\* within jump_radius * small_jump_factor of the last jump destination g
\* stays in Tracking, whatever the head speed and the mouse position; in
\* particular a throw toward g itself is never re-triggered.
C5_NoRetriggerNearLastJump == [][C5_Call]_vars

\* after a snap to a gaze point g, a fast call with gaze g and a far mouse
\* stayed in Tracking
C5_Witness ==
    /\ call.n >= 2
    /\ NonNegativeParams
    /\ call.branch = "track"
    /\ ~throwing
    /\ last_jump_destination = call.gaze
    /\ last_jump_destination # vec2(0, 0)
    /\ smoothed_head_speed > pparams.throw_thresh_speed
    /\ MouseFarFromGaze(call, smoothed_head_speed)

\* the step is a call of transform
IsCall == call'.tick # call.tick

\* the mouse position of call c is its gaze point
MouseOnGaze(c) == AsF32(c.mouse) = c.gaze

\* what C14 says of one call made while Throwing
C14_Call ==
    (IsCall /\ throwing /\ MouseOnGaze(call')) => call'.ret = call'.mouse

\* C14: if mouse_pt equals gaze_pt in a call made while Throwing, the call
\* falls back to a zero displacement instead of propagating the NaN of the
\* normalized zero vector: the point returned is mouse_pt.
C14_MouseOnGazeKeepsMouse == [][C14_Call]_vars

\* a call made on a mouse position equal to the gaze point took the throw
\* block and returned another point
C14_Witness ==
    /\ call.n >= 2
    /\ call.branch = "snap"
    /\ MouseOnGaze(call)
    /\ call.ret # call.mouse
    /\ last_jump_destination = call.gaze

\* the step is a call that reaches `if self.throwing` with throwing set: it
\* was set before the call or the trigger of the call sets it
ThrowingCall ==
    /\ IsCall
    /\ \/ throwing
       \/ ThrowTriggered(call'.gaze, AsF32(call'.mouse), smoothed_head_speed',
                         last_jump_destination, pparams)

\* the step is a call that reaches `if self.throwing` with throwing clear
TrackingCall ==
    /\ IsCall
    /\ ~throwing
    /\ ~ThrowTriggered(call'.gaze, AsF32(call'.mouse), smoothed_head_speed',
                       last_jump_destination, pparams)

\* the mouse of call c is farther from its gaze than throw_speed * dt + min_jump
BeyondReach(c) ==
    DistanceExceeds(AsF32(c.mouse), c.gaze,
                    Mul(pparams.throw_speed, c.dt) + pparams.min_jump)

\* base moved by scalar along the unit vector from the mouse of call c to its
\* gaze (which is not the mouse), each coordinate truncated toward zero
Along(c, base, scalar) ==
    LET m  == AsF32(c.mouse)
        d2 == Dist2(m, c.gaze)
        r  == ISqrt(d2)
    IN  vec2(AlongAsI32(base.x, c.gaze.x - m.x, d2, r, scalar),
             AlongAsI32(base.y, c.gaze.y - m.y, d2, r, scalar))

\* the point call c returned is its gaze moved back by min_jump along a unit
\* vector and truncated: along the one from mouse to gaze or, where the mouse
\* is on the gaze, along any, which leaves it within min_jump and a pixel
\* and a half of the gaze
BackedOff(c) ==
    IF MouseOnGaze(c)
    THEN /\ OnScreen({c.ret}) # {}
         /\ ~DistanceExceeds(AsF32(c.ret), c.gaze, pparams.min_jump + 15)
    ELSE c.ret = Along(c, c.gaze, -pparams.min_jump)

\* what C15 says of one call
C15_Call ==
    (ThrowingCall /\ ~BeyondReach(call')) =>
        /\ last_jump_destination' = call'.gaze
        /\ ~throwing'
        /\ BackedOff(call')

\* C15: a call that is Throwing and whose distance from mouse to gaze is at
\* most throw_speed * dt + min_jump sets last_jump_destination to its
\* gaze_pt, leaves the state in Tracking and returns gaze_pt moved back by
\* min_jump along the unit vector from mouse to gaze, each coordinate
\* truncated toward zero.
C15_SnapBacksOff == [][C15_Call]_vars

\* a snap on a mouse position equal to the gaze point returned a point
\* farther than min_jump and a pixel and a half from the gaze
C15_Witness ==
    /\ call.branch = "snap"
    /\ ~throwing
    /\ last_jump_destination = call.gaze
    /\ MouseOnGaze(call)
    /\ ~BackedOff(call)

\* what C16 says of one call made while Throwing
C16_Call ==
    /\ (IsCall /\ throwing /\ BeyondReach(call')) =>
            /\ throwing'
            /\ last_jump_destination' = last_jump_destination
            /\ call'.ret = Along(call', AsF32(call'.mouse),
                                 Mul(pparams.throw_speed, call'.dt))
    /\ (IsCall /\ throwing /\ ~throwing') =>
            /\ ~BeyondReach(call')
            /\ last_jump_destination' = call'.gaze

\* C16: once the state is Throwing, every call whose distance from mouse to
\* gaze exceeds throw_speed * dt + min_jump returns the mouse moved by
\* throw_speed * dt along the unit vector toward the gaze (truncated), stays
\* in Throwing and leaves last_jump_destination unchanged, whatever the
\* smoothed head speed and the far-away guard have become; Throwing is left
\* only by a snap.
C16_ThrowingIsSticky == [][C16_Call]_vars

\* a throw went on in a call whose smoothed head speed was not above the
\* threshold, so that its trigger did not hold
C16_Witness ==
    /\ call.n >= 2
    /\ call.branch = "part"
    /\ throwing
    /\ smoothed_head_speed <= pparams.throw_thresh_speed
    /\ call.ret # call.mouse

\* what C17 says of one call
C17_Call ==
    TrackingCall =>
        LET rx == RoundStep(x_round, call'.head_delta.x)
            ry == RoundStep(y_round, call'.head_delta.y)
        IN  /\ call'.ret = vec2(call'.mouse.x + rx.res, call'.mouse.y + ry.res)
            /\ x_round' = rx.accum
            /\ y_round' = ry.accum
            /\ ~throwing'
            /\ last_jump_destination' = last_jump_destination

\* C17: a call that does not take the throw branch returns mouse_pt plus
\* (x_round.round(head_delta.x), y_round.round(head_delta.y)), each axis with
\* its own rounder, and leaves the state in Tracking and
\* last_jump_destination unchanged; the point returned does not depend on
\* the gaze point.
C17_TrackingAddsRoundedMove == [][C17_Call]_vars

\* a third tracking call of head delta (0.6, 0.8) moved the mouse by one
\* pixel in y and by none in x
C17_Witness ==
    /\ call.n = 3
    /\ call.branch = "track"
    /\ call.head_delta = vec2(6, 8)
    /\ call.ret = vec2(call.mouse.x, call.mouse.y + 1)
    /\ x_round = 8
    /\ y_round = 4

\* what C19 says of one call
C19_Call ==
    ThrowingCall => (x_round' = x_round /\ y_round' = y_round)

\* C19: a call that takes the throw branch, partway move or snap, does not
\* advance either AccumulatingRounder: both carried fractions are after the
\* call what they were before it.
C19_ThrowKeepsRounders == [][C19_Call]_vars

\* a throw call with a head delta that is not zero has left fractions
\* carried by earlier tracking calls in both rounders
C19_Witness ==
    /\ call.n >= 2
    /\ call.branch \in {"part", "snap"}
    /\ call.head_delta # vec2(0, 0)
    /\ x_round = 6
    /\ y_round = 8

=============================================================================
